---- MODULE Spec2Model ----
(***************************************************************************)
(* Model of the metadata-extraction pipeline of                            *)
(* server/apps/microservices/src/processors/metadata-extraction.processor *)
(* (src/unnamed/part_000): MetadataExtractionProcessor (init, the scan     *)
(* dispatcher, image and video extraction, reverse geocoding) and          *)
(* SidecarProcessor.                                                       *)
(*                                                                         *)
(* Values.  An ExifEntity column and an asset column hold an integer:      *)
(* NULL for null, UNDEF for undefined (a column that was never assigned),  *)
(* any number >= 0 for a value.  A raw tag value, as exiftool returns it,  *)
(* is a record [kind, v, zone]; kind says what JavaScript sees ("absent",  *)
(* "number", "string", "datetime" for ExifDateTime, "array").              *)
(***************************************************************************)
EXTENDS Integers, Sequences, FiniteSets, Bags, TLC

NULL == -1
UNDEF == -2

\* ------------------------------------------------------------------ bounds
\* Largest number a tag value carries in the merge inputs.
MaxTagVal == 1

\* ------------------------------------------------------------------ tags
TagNames ==
    {"DateTimeOriginal", "CreateDate", "ModifyDate", "Make", "Model",
     "ExifImageHeight", "ImageHeight", "ExifImageWidth", "ImageWidth",
     "ExposureTime", "Orientation", "LensModel", "FNumber", "FocalLength",
     "ISO", "GPSLatitude", "GPSLongitude", "MediaGroupUUID", "ContentIdentifier"}

Absent == [kind |-> "absent", v |-> 0, zone |-> NULL]
Num(n) == [kind |-> "number", v |-> n, zone |-> NULL]
Str(n) == [kind |-> "string", v |-> n, zone |-> NULL]
Edt(n, z) == [kind |-> "datetime", v |-> n, zone |-> z]
Arr(n) == [kind |-> "array", v |-> n, zone |-> NULL]

\* A tag mapping as exiftool.read resolves it; {} is the mapping with no tag.
EmptyTags == [t \in TagNames |-> Absent]
\* The result of a read: the mapping, or null when the .catch handler ran.
ReadOk(tags) == [ok |-> TRUE, tags |-> tags]
ReadNull == [ok |-> FALSE, tags |-> EmptyTags]

\* data?.[property]: undefined when data is null, the tag otherwise.
Tag(data, property) == IF data.ok THEN data.tags[property] ELSE Absent

\* JavaScript truthiness of a raw value: 0 is falsy, a string, an object or
\* an array is truthy (the strings modelled are non-empty).
Truthy(raw) == raw.kind # "absent" /\ (raw.kind = "number" => raw.v # 0)

\* The pick with its operands exchanged: the embedded value first.
NullishPick_swapped(sidecarExifData, mediaExifData, property) ==
    IF Tag(mediaExifData, property).kind # "absent"
    THEN Tag(mediaExifData, property)
    ELSE Tag(sidecarExifData, property)

\* sidecarExifData?.[property] ?? mediaExifData?.[property]
NullishPick(sidecarExifData, mediaExifData, property) ==
    IF Tag(sidecarExifData, property).kind # "absent"
    THEN Tag(sidecarExifData, property)
    ELSE Tag(mediaExifData, property)

\* getExifProperty(...properties): the first property, in list order, whose
\* pick is populated; null (Absent) when none is.
RECURSIVE getExifProperty(_, _, _)
getExifProperty(sidecarExifData, mediaExifData, properties) ==
    IF properties = << >> THEN Absent
    ELSE LET value == NullishPick(sidecarExifData, mediaExifData, Head(properties))
         IN  IF value.kind # "absent" THEN value
             ELSE getExifProperty(sidecarExifData, mediaExifData, Tail(properties))

\* exifToDate: null for a falsy value, new Date(string) for a string,
\* exifDate.toDate() for an ExifDateTime; the instant is the value's number.
exifToDate(exifDate) == IF exifDate.kind = "absent" THEN NULL ELSE exifDate.v

\* exifTimeZone: null for a falsy value or a string, exifDate.zone ?? null
\* for an ExifDateTime.
exifTimeZone(exifDate) ==
    IF exifDate.kind = "datetime" THEN exifDate.zone ELSE NULL

\* x ?? asset.fileCreatedAt : the asset column is an ISO string or null.
OrAssetDate(raw, column) ==
    IF raw.kind # "absent" THEN raw
    ELSE IF column = NULL THEN Absent ELSE Str(column)

\* A column assigned the raw value as it is (any | null).
Plain(raw) == IF raw.kind = "absent" THEN NULL ELSE raw.v
\* getExifProperty('Orientation')?.toString()
OrientationOf(raw) == IF raw.kind = "absent" THEN UNDEF ELSE raw.v
\* focalLength ? parseFloat(focalLength) : null
FocalLengthOf(raw) == IF Truthy(raw) THEN raw.v ELSE NULL
\* Array.isArray(iso) ? iso[0] : iso || null
IsoOf(raw) ==
    IF raw.kind = "array" THEN raw.v
    ELSE IF Truthy(raw) THEN raw.v ELSE NULL

\* ------------------------------------------------------------- entities
\* new ExifEntity(): no column assigned yet.
NewExifEntity ==
    [assetId |-> UNDEF, fileSizeInByte |-> UNDEF, make |-> UNDEF, model |-> UNDEF,
     exifImageHeight |-> UNDEF, exifImageWidth |-> UNDEF, exposureTime |-> UNDEF,
     orientation |-> UNDEF, dateTimeOriginal |-> UNDEF, modifyDate |-> UNDEF,
     timeZone |-> UNDEF, lensModel |-> UNDEF, fNumber |-> UNDEF,
     focalLength |-> UNDEF, iso |-> UNDEF, latitude |-> UNDEF,
     longitude |-> UNDEF, livePhotoCID |-> UNDEF, city |-> UNDEF,
     state |-> UNDEF, country |-> UNDEF, fps |-> UNDEF]

ExifColumns == DOMAIN NewExifEntity

\* An asset row.  sidecarPath is NULL or 1 (the path <originalPath>.xmp).
Asset(id, type, ownerId, isVisible, sidecarPath, fileCreatedAt) ==
    [id |-> id, type |-> type, ownerId |-> ownerId, isVisible |-> isVisible,
     livePhotoVideoId |-> NULL, sidecarPath |-> sidecarPath,
     fileCreatedAt |-> fileCreatedAt, fileModifiedAt |-> fileCreatedAt,
     duration |-> NULL]

\* The request lists of extractExifInfo, one per column it reads from tags.
Request(column) ==
    CASE column = "make" -> <<"Make">>
      [] column = "model" -> <<"Model">>
      [] column = "exifImageHeight" -> <<"ExifImageHeight", "ImageHeight">>
      [] column = "exifImageWidth" -> <<"ExifImageWidth", "ImageWidth">>
      [] column = "exposureTime" -> <<"ExposureTime">>
      [] column = "orientation" -> <<"Orientation">>
      [] column = "dateTimeOriginal" -> <<"DateTimeOriginal", "CreateDate">>
      [] column = "timeZone" -> <<"DateTimeOriginal", "CreateDate">>
      [] column = "modifyDate" -> <<"ModifyDate">>
      [] column = "lensModel" -> <<"LensModel">>
      [] column = "fNumber" -> <<"FNumber">>
      [] column = "focalLength" -> <<"FocalLength">>
      [] column = "iso" -> <<"ISO">>
      [] column = "latitude" -> <<"GPSLatitude">>
      [] column = "longitude" -> <<"GPSLongitude">>
      [] column = "livePhotoCID" -> <<"MediaGroupUUID">>

TagColumns ==
    {"make", "model", "exifImageHeight", "exifImageWidth", "exposureTime",
     "orientation", "dateTimeOriginal", "timeZone", "modifyDate", "lensModel",
     "fNumber", "focalLength", "iso", "latitude", "longitude", "livePhotoCID"}

\* What extractExifInfo assigns to a column from the raw value it selected.
Coerce(column, raw, asset) ==
    CASE column = "orientation" -> OrientationOf(raw)
      [] column = "focalLength" -> FocalLengthOf(raw)
      [] column = "iso" -> IsoOf(raw)
      [] column = "dateTimeOriginal" -> exifToDate(OrAssetDate(raw, asset.fileCreatedAt))
      [] column = "timeZone" -> exifTimeZone(OrAssetDate(raw, asset.fileCreatedAt))
      [] column = "modifyDate" -> exifToDate(OrAssetDate(raw, asset.fileModifiedAt))
      [] OTHER -> Plain(raw)

\* extractExifInfo, the record built from the two tag mappings and the stat.
ImageExif(asset, sidecarExifData, mediaExifData, fileSizeInBytes) ==
    [column \in ExifColumns |->
        IF column = "assetId" THEN asset.id
        ELSE IF column = "fileSizeInByte" THEN fileSizeInBytes
        ELSE IF column \in TagColumns
             THEN Coerce(column,
                         getExifProperty(sidecarExifData, mediaExifData, Request(column)),
                         asset)
        ELSE UNDEF]

\* ------------------------------------------------------------------ state
VARIABLES
    assets,        \* asset id -> asset row (the asset repository)
    exif,          \* the set of ExifEntity rows (the exif repository)
    queue,         \* bag of jobs enqueued and not yet taken, [name, asset]
    w,             \* worker -> the extraction job it runs and its locals
    files,         \* asset id -> what the tools report for the asset's files
    faults,        \* number of failures the environment has injected so far
    emitted,       \* number of extraction jobs emitted so far
    overlapped,    \* history: some job started while another one was running
    assets0,       \* history: the asset rows before any job ran
    reverseGeocodingEnabled,
    indexState,    \* geocoding index: "absent", "building" or "ready"
    paused,        \* the metadata-extraction queue is paused
    ini,           \* the running init() call: [pc, deleteCache]
    geoObserved,   \* history: index states that reverseGeocode calls have seen
    indexWrites,   \* history: [op, paused] of each mutation of the index
    scan,          \* the running queue-scan handler and its page cursor
    mergeIn,       \* merge inputs: [asset, sidecar, media]
    mergeOut,      \* the record ImageExif built from mergeIn, once built
    rerun          \* history: the rows and records when a job was delivered again

pipeVars == <<assets, exif, queue, w, files, faults, emitted, overlapped, assets0>>
geoVars == <<reverseGeocodingEnabled, indexState, paused, ini, geoObserved, indexWrites>>
scanVars == <<scan>>
mergeVars == <<mergeIn, mergeOut>>
histVars == <<rerun>>
vars == <<pipeVars, geoVars, scanVars, mergeVars, histVars>>

\* Faults the environment may inject in one behaviour.
MaxFaults == 2
\* Extraction jobs emitted in one behaviour.
MaxJobs == 2

AssetIds == 1 .. 2
\* Two of the slots of the metadata-extraction queue (the video handler alone
\* is registered with concurrency 2).
Workers == 1 .. 2

EXIF_EXTRACTION == "exif-extraction"
EXTRACT_VIDEO_METADATA == "extract-video-metadata"
STORAGE_TEMPLATE_MIGRATION_SINGLE == "storage-template-migration-single"
SIDECAR_SYNC == "sidecar-sync"
SIDECAR_DISCOVERY == "sidecar-discovery"
IMAGE == "IMAGE"
VIDEO == "VIDEO"

NoAsset == Asset(NULL, "none", NULL, FALSE, NULL, NULL)

\* A worker slot with no job.
IdleWorker ==
    [pc |-> "idle", name |-> "none", data |-> NoAsset, asset |-> NoAsset,
     media |-> ReadOk(EmptyTags), sidecar |-> ReadOk(EmptyTags),
     newExif |-> NewExifEntity,
     match |-> NULL, fileCreatedAt |-> NULL, durationString |-> NULL,
     outcome |-> "none", enqueued |-> 0]

Busy(k) == w[k].pc \notin {"idle", "done"}

\* ----------------------------------------------------------- repositories
\* assetCore.save({ id, [column]: value }): a partial update of one row.
save(rows, id, column, value) ==
    [rows EXCEPT ![id] = [@ EXCEPT ![column] = value]]

\* assetCore.findLivePhotoMatch: another asset of the owner, of the given
\* type, whose exif row carries the content identifier; null when none.
findLivePhotoMatch(livePhotoCID, otherAssetId, ownerId, type) ==
    LET found == {a \in DOMAIN assets :
                    /\ a # otherAssetId
                    /\ assets[a].ownerId = ownerId
                    /\ assets[a].type = type
                    /\ \E e \in exif : e.assetId = a /\ e.livePhotoCID = livePhotoCID}
    IN  IF found = {} THEN NULL
        ELSE CHOOSE a \in found : \A b \in found : a <= b

\* exifRepository.upsert(newExif, { conflictPaths: ['assetId'] }): the row of
\* the asset is inserted, or its assigned columns overwritten; a column left
\* undefined keeps the stored value (null on insert).
upsert(rows, newExif) ==
    LET old == {e \in rows : e.assetId = newExif.assetId}
        merged(e) == [c \in ExifColumns |-> IF newExif[c] = UNDEF THEN e[c] ELSE newExif[c]]
        fresh == [c \in ExifColumns |-> IF newExif[c] = UNDEF THEN NULL ELSE newExif[c]]
    IN  IF old = {} THEN rows \cup {fresh}
        ELSE (rows \ old) \cup {merged(e) : e \in old}

\* jobRepository.queue({ name, data: { asset } })
Job(name, asset) == [name |-> name, asset |-> asset]
enqueue(q, job) == q (+) SetToBag({job})

\* ------------------------------------------------------------ video probe
\* x || null for a number column: 0, null and undefined give null.
OrNull(x) == IF x = 0 \/ x = NULL \/ x = UNDEF THEN NULL ELSE x

\* Math.round(parseInt(a) / parseInt(b)) results that are not integers.
NAN == -3
INFINITY == -4

\* A location string is a sequence of tokens: a signed decimal group
\* [+-][0-9]+\.[0-9]+ with its value, the slash, or any other character.
Group(n) == [kind |-> "group", v |-> n]
Slash == [kind |-> "slash", v |-> 0]
Other == [kind |-> "other", v |-> 0]

\* location.match(/(G)(G)\/$/): the pattern is anchored at the end only, so
\* it matches when the string ends with two groups and a slash.
MatchPair(location) ==
    /\ Len(location) >= 3
    /\ location[Len(location)].kind = "slash"
    /\ location[Len(location) - 1].kind = "group"
    /\ location[Len(location) - 2].kind = "group"

\* location.match(/(G)(G)(G)\/$/)
MatchTriple(location) ==
    /\ Len(location) >= 4
    /\ location[Len(location)].kind = "slash"
    /\ location[Len(location) - 1].kind = "group"
    /\ location[Len(location) - 2].kind = "group"
    /\ location[Len(location) - 3].kind = "group"

\* Lines 283-301: latitude and longitude from the probe's format tags.
WithLocation(newExif, data) ==
    IF data.hasTags /\ data.location # << >>
    THEN IF MatchPair(data.location)
         THEN [newExif EXCEPT !.latitude = data.location[Len(data.location) - 2].v,
                              !.longitude = data.location[Len(data.location) - 1].v]
         ELSE newExif
    ELSE IF data.hasTags /\ data.iso6709 # << >>
    THEN IF MatchTriple(data.iso6709)
         THEN [newExif EXCEPT !.latitude = data.iso6709[Len(data.iso6709) - 3].v,
                              !.longitude = data.iso6709[Len(data.iso6709) - 2].v]
         ELSE newExif
    ELSE newExif

\* A column is truthy: neither null, undefined nor 0.
IsSet(x) == x # NULL /\ x # UNDEF /\ x # 0

\* stream.r_frame_rate is [parts, num, den]: the number of pieces split('/')
\* gives and parseInt of the first two (NAN when not a number).
Fps(rate) ==
    IF rate.num = NAN \/ rate.den = NAN THEN NAN
    ELSE IF rate.den = 0 THEN (IF rate.num = 0 THEN NAN ELSE INFINITY)
    ELSE (2 * rate.num + rate.den) \div (2 * rate.den)

NoRate == [parts |-> 0, num |-> 0, den |-> 0]
Rate(num, den) == [parts |-> 2, num |-> num, den |-> den]
Stream(codec_type, width, height, rotation, rate) ==
    [codec_type |-> codec_type, width |-> width, height |-> height,
     rotation |-> rotation, r_frame_rate |-> rate]

\* Lines 313-334: every video stream overwrites width, height and
\* orientation; fps only when the rate splits in two pieces.
RECURSIVE WithStreams(_, _)
WithStreams(newExif, streams) ==
    IF streams = << >> THEN newExif
    ELSE LET stream == Head(streams)
             dims == [newExif EXCEPT !.exifImageWidth = OrNull(stream.width),
                                     !.exifImageHeight = OrNull(stream.height),
                                     !.orientation = stream.rotation]
             next == IF stream.codec_type # "video" THEN newExif
                     ELSE IF stream.r_frame_rate.parts = 2
                     THEN [dims EXCEPT !.fps = Fps(stream.r_frame_rate)]
                     ELSE dims
         IN  WithStreams(next, Tail(streams))

\* What ffprobe resolves for a file.
Probe(duration, size, hasTags, creationdate, creation_time, location, iso6709, streams) ==
    [duration |-> duration, size |-> size, hasTags |-> hasTags,
     creationdate |-> creationdate, creation_time |-> creation_time,
     location |-> location, iso6709 |-> iso6709, streams |-> streams]

NoProbe == Probe(NULL, NULL, FALSE, NULL, NULL, << >>, << >>, << >>)

\* Lines 237-246: the capture time of a video.
VideoCreatedAt(asset, data) ==
    IF data.hasTags /\ data.creationdate # NULL THEN data.creationdate
    ELSE IF data.hasTags /\ data.creation_time # NULL THEN data.creation_time
    ELSE asset.fileCreatedAt

\* extractDuration: null for a missing or zero duration, else the duration
\* (in seconds) as formatted text.
extractDuration(duration) == OrNull(duration)

\* Lines 256-268: the record extractVideoMetadata starts from.
VideoExif(asset, data, exifData) ==
    [NewExifEntity EXCEPT
        !.assetId = asset.id,
        !.fileSizeInByte = OrNull(data.size),
        !.dateTimeOriginal = VideoCreatedAt(asset, data),
        !.modifyDate = NULL, !.timeZone = NULL,
        !.latitude = NULL, !.longitude = NULL,
        !.city = NULL, !.state = NULL, !.country = NULL, !.fps = NULL,
        !.livePhotoCID =
            IF Truthy(Tag(exifData, "ContentIdentifier"))
            THEN Tag(exifData, "ContentIdentifier").v ELSE NULL]

\* What the tools report for one asset's files.
File(media, sidecar, size, sharp, probe) ==
    [media |-> media, sidecar |-> sidecar, size |-> size, sharp |-> sharp,
     probe |-> probe]
Sharp(height, width, orientation) ==
    [height |-> height, width |-> width, orientation |-> orientation]

\* ------------------------------------------------------- extraction jobs
ExtractionJobs == {EXIF_EXTRACTION, EXTRACT_VIDEO_METADATA}

UnchangedGeo == UNCHANGED <<geoVars, scanVars, mergeVars, histVars>>

\* Lines 88-89 (also 415-416, 439-440): an extraction job is emitted for an
\* asset, carrying the row as it is now.
Emit(a) ==
    /\ emitted < MaxJobs
    /\ emitted' = emitted + 1
    /\ queue' = enqueue(queue,
                  Job(IF assets[a].type = VIDEO THEN EXTRACT_VIDEO_METADATA
                      ELSE EXIF_EXTRACTION, assets[a]))
    /\ UNCHANGED <<assets, exif, w, files, faults, overlapped, assets0>>
    /\ UnchangedGeo

\* A catch block that would swallow the error and go on to the chained job.
Caught_continues(k) ==
    /\ w' = [w EXCEPT ![k].pc = "queue", ![k].outcome = "caught"]
    /\ faults' = faults + 1

\* The catch blocks of lines 218-223 and 339-344: the error is logged and
\* the handler returns.
Caught(k) ==
    /\ w' = [w EXCEPT ![k].pc = "done", ![k].outcome = "caught"]
    /\ faults' = faults + 1

\* A step of worker k that may throw: either its effect, or the catch block
\* with nothing else changed.
Throws(k) ==
    /\ faults < MaxFaults
    /\ Caught(k)
    /\ UNCHANGED <<assets, exif, queue, files, emitted, overlapped, assets0>>

\* jobRepository.pause(queue) / resume(queue): a consumer-level barrier; a
\* paused queue hands no job to a slot, a job already taken runs on.
Consuming == ~paused

\* A free slot (one that never ran a job, or whose handler has returned)
\* takes a job off the queue and enters its handler.  Line 230: the video
\* handler returns at once for a snapshot that is not visible.
StartJob(k, job) ==
    /\ Consuming
    /\ ~Busy(k)
    /\ job \in BagToSet(queue)
    /\ job.name \in ExtractionJobs
    /\ queue' = queue (-) SetToBag({job})
    /\ w' = [w EXCEPT ![k] =
                [IdleWorker EXCEPT
                    !.name = job.name, !.data = job.asset, !.asset = job.asset,
                    !.pc = IF job.name = EXIF_EXTRACTION THEN "readMedia"
                           ELSE IF ~job.asset.isVisible THEN "done"
                           ELSE "ffprobe",
                    !.outcome = IF job.name = EXTRACT_VIDEO_METADATA /\ ~job.asset.isVisible
                                THEN "skipped" ELSE "none"]]
    /\ overlapped' = (overlapped \/ \E o \in Workers \ {k} : Busy(o))
    /\ UNCHANGED <<assets, exif, files, faults, emitted, assets0>>
    /\ UnchangedGeo

\* The next step after the first tag read of the image handler.
AfterMedia(asset) == IF asset.sidecarPath # NULL THEN "readSidecar" ELSE "stat"

\* A failed read that would end the run instead of yielding null.
ReadMediaFailed_aborts(k) ==
    /\ w' = [w EXCEPT ![k].media = ReadNull, ![k].pc = "done", ![k].outcome = "caught"]
    /\ faults' = faults + 1

\* Lines 102-108: the .catch handler of exiftool.read(asset.originalPath)
\* logs and yields null; the run goes on.
ReadMediaFailed(k) ==
    /\ w' = [w EXCEPT ![k].media = ReadNull,
                      ![k].sidecar = ReadOk(EmptyTags),
                      ![k].pc = AfterMedia(w[k].asset)]
    /\ faults' = faults + 1

\* Lines 102-108 and 117: exiftool.read(asset.originalPath).  Without a
\* sidecar path the sidecar is {}.
ReadMedia(k) ==
    /\ w[k].pc = "readMedia"
    /\ \/ /\ w' = [w EXCEPT ![k].media = ReadOk(files[w[k].asset.id].media),
                            ![k].sidecar = ReadOk(EmptyTags),
                            ![k].pc = AfterMedia(w[k].asset)]
          /\ UNCHANGED faults
       \/ /\ faults < MaxFaults
          /\ ReadMediaFailed(k)
    /\ UNCHANGED <<assets, exif, queue, files, emitted, overlapped, assets0>>
    /\ UnchangedGeo

\* Lines 109-116: exiftool.read(asset.sidecarPath), with its own .catch.
ReadSidecar(k) ==
    /\ w[k].pc = "readSidecar"
    /\ \/ /\ w' = [w EXCEPT ![k].sidecar = ReadOk(files[w[k].asset.id].sidecar),
                            ![k].pc = "stat"]
          /\ UNCHANGED faults
       \/ /\ faults < MaxFaults
          /\ w' = [w EXCEPT ![k].sidecar = ReadNull, ![k].pc = "stat"]
          /\ faults' = faults + 1
    /\ UNCHANGED <<assets, exif, queue, files, emitted, overlapped, assets0>>
    /\ UnchangedGeo

\* A pairing condition under which only the image handler would search.
WantsMatch_stillOnly(name, asset, newExif) ==
    /\ IsSet(newExif.livePhotoCID)
    /\ name = EXIF_EXTRACTION
    /\ ~IsSet(asset.livePhotoVideoId)

\* Lines 180 and 270: whether the handler searches for the other half.
WantsMatch(name, asset, newExif) ==
    /\ IsSet(newExif.livePhotoCID)
    /\ name = EXIF_EXTRACTION => ~IsSet(asset.livePhotoVideoId)

\* Lines 150-180: fs.statSync, which may throw, and the record built from
\* the tags.
Stat(k) ==
    /\ w[k].pc = "stat"
    /\ \/ LET asset == w[k].asset
              newExif == ImageExif(asset, w[k].sidecar, w[k].media, files[asset.id].size)
          IN  /\ w' = [w EXCEPT ![k].newExif = newExif,
                                ![k].fileCreatedAt = newExif.dateTimeOriginal,
                                ![k].pc = IF WantsMatch(EXIF_EXTRACTION, asset, newExif)
                                          THEN "search" ELSE "geocode"]
              /\ UNCHANGED <<assets, exif, queue, files, faults, emitted, overlapped, assets0>>
       \/ Throws(k)
    /\ UnchangedGeo

\* The step that follows the pairing block (lines 191 and 281).
AfterPairing(name) == IF name = EXIF_EXTRACTION THEN "geocode" ELSE "location"

\* Line 235: ffprobe(asset.originalPath), which may reject; lines 236-246.
Ffprobe(k) ==
    /\ w[k].pc = "ffprobe"
    /\ \/ LET asset == w[k].asset
              data == files[asset.id].probe
          IN  /\ w' = [w EXCEPT
                         ![k].durationString =
                             extractDuration(IF IsSet(data.duration) THEN data.duration
                                             ELSE asset.duration),
                         ![k].fileCreatedAt = VideoCreatedAt(asset, data),
                         ![k].pc = "readTags"]
              /\ UNCHANGED <<assets, exif, queue, files, faults, emitted, overlapped, assets0>>
       \/ Throws(k)
    /\ UnchangedGeo

\* Lines 248-270: exiftool.read(asset.sidecarPath || asset.originalPath) with
\* its .catch, and the record the video handler starts from.
ReadVideoTags(k) ==
    /\ w[k].pc = "readTags"
    /\ \E failed \in BOOLEAN :
         LET asset == w[k].asset
             exifData == IF failed THEN ReadNull
                         ELSE IF asset.sidecarPath # NULL
                         THEN ReadOk(files[asset.id].sidecar)
                         ELSE ReadOk(files[asset.id].media)
             newExif == VideoExif(asset, files[asset.id].probe, exifData)
         IN  /\ failed => faults < MaxFaults
             /\ faults' = IF failed THEN faults + 1 ELSE faults
             /\ w' = [w EXCEPT ![k].media = exifData,
                               ![k].newExif = newExif,
                               ![k].pc = IF WantsMatch(EXTRACT_VIDEO_METADATA, asset, newExif)
                                         THEN "search" ELSE "location"]
    /\ UNCHANGED <<assets, exif, queue, files, emitted, overlapped, assets0>>
    /\ UnchangedGeo

\* Lines 181-186 and 271-276: the search for the other half, which may reject.
Search(k) ==
    /\ w[k].pc = "search"
    /\ \/ LET asset == w[k].asset
              found == findLivePhotoMatch(w[k].newExif.livePhotoCID, asset.id, asset.ownerId,
                                          IF w[k].name = EXIF_EXTRACTION THEN VIDEO ELSE IMAGE)
          IN  /\ w' = [w EXCEPT ![k].match = found,
                                ![k].pc = IF found # NULL THEN "saveLink"
                                          ELSE AfterPairing(w[k].name)]
              /\ UNCHANGED <<assets, exif, queue, files, faults, emitted, overlapped, assets0>>
       \/ Throws(k)
    /\ UnchangedGeo

\* A link saved the wrong way round: on the other asset, naming this one.
SaveLink_reversed(k) ==
    /\ w[k].pc = "saveLink"
    /\ \/ /\ assets' = IF w[k].name = EXIF_EXTRACTION
                       THEN save(assets, w[k].match, "livePhotoVideoId", w[k].asset.id)
                       ELSE save(assets, w[k].asset.id, "livePhotoVideoId", w[k].match)
          /\ w' = [w EXCEPT ![k].pc = "saveHide"]
          /\ UNCHANGED <<exif, queue, files, faults, emitted, overlapped, assets0>>
       \/ Throws(k)
    /\ UnchangedGeo

\* Lines 188 and 278: the still's livePhotoVideoId is set to the video's id.
SaveLink(k) ==
    /\ w[k].pc = "saveLink"
    /\ \/ /\ assets' = IF w[k].name = EXIF_EXTRACTION
                       THEN save(assets, w[k].asset.id, "livePhotoVideoId", w[k].match)
                       ELSE save(assets, w[k].match, "livePhotoVideoId", w[k].asset.id)
          /\ w' = [w EXCEPT ![k].pc = "saveHide"]
          /\ UNCHANGED <<exif, queue, files, faults, emitted, overlapped, assets0>>
       \/ Throws(k)
    /\ UnchangedGeo

\* Lines 189 and 279: the video is marked not visible.
SaveHide(k) ==
    /\ w[k].pc = "saveHide"
    /\ \/ /\ assets' = IF w[k].name = EXIF_EXTRACTION
                       THEN save(assets, w[k].match, "isVisible", FALSE)
                       ELSE save(assets, w[k].asset.id, "isVisible", FALSE)
          /\ w' = [w EXCEPT ![k].pc = AfterPairing(w[k].name)]
          /\ UNCHANGED <<exif, queue, files, faults, emitted, overlapped, assets0>>
       \/ Throws(k)
    /\ UnchangedGeo

\* Lines 283-309: the coordinates of a video and tz_lookup, whose error is
\* caught in place (the time zone stays null).
Location(k) ==
    /\ w[k].pc = "location"
    /\ LET located == WithLocation(w[k].newExif, files[w[k].asset.id].probe)
           lookup == IsSet(located.longitude) /\ IsSet(located.latitude)
       IN  \/ /\ w' = [w EXCEPT ![k].newExif =
                                    IF lookup THEN [located EXCEPT !.timeZone = 1] ELSE located,
                                ![k].pc = "geocode"]
              /\ UNCHANGED faults
           \/ /\ lookup
              /\ faults < MaxFaults
              /\ w' = [w EXCEPT ![k].newExif = located, ![k].pc = "geocode"]
              /\ faults' = faults + 1
    /\ UNCHANGED <<assets, exif, queue, files, emitted, overlapped, assets0>>
    /\ UnchangedGeo

\* geocodingRepository.reverseGeocode: the place, or a LookupError while the
\* index is not ready.
reverseGeocode(index) == IF index = "ready" THEN 1 ELSE NULL

\* Lines 347-362, called at lines 193 and 311: the lookup runs when geocoding
\* is enabled and both coordinates are truthy; its error is caught in place.
applyReverseGeocoding(k) ==
    /\ w[k].pc = "geocode"
    /\ LET newExif == w[k].newExif
           next == IF w[k].name = EXIF_EXTRACTION THEN "inspect" ELSE "streams"
           place == reverseGeocode(indexState)
       IN  IF reverseGeocodingEnabled /\ IsSet(newExif.longitude) /\ IsSet(newExif.latitude)
           THEN /\ geoObserved' = geoObserved \cup {indexState}
                /\ \/ /\ w' = [w EXCEPT ![k].pc = next,
                                        ![k].newExif =
                                            IF place = NULL THEN newExif
                                            ELSE [newExif EXCEPT !.country = place,
                                                                 !.state = place,
                                                                 !.city = place]]
                      /\ UNCHANGED faults
                   \/ /\ faults < MaxFaults
                      /\ w' = [w EXCEPT ![k].pc = next]
                      /\ faults' = faults + 1
           ELSE /\ w' = [w EXCEPT ![k].pc = next]
                /\ UNCHANGED <<faults, geoObserved>>
    /\ UNCHANGED <<assets, exif, queue, files, emitted, overlapped, assets0>>
    /\ UNCHANGED <<reverseGeocodingEnabled, indexState, paused, ini, indexWrites>>
    /\ UNCHANGED <<scanVars, mergeVars, histVars>>

\* Line 199: a dimension is falsy (null, undefined or 0), or the orientation
\* text is null or undefined.
NeedsInspection(newExif) ==
    \/ ~IsSet(newExif.exifImageHeight)
    \/ ~IsSet(newExif.exifImageWidth)
    \/ newExif.orientation \in {NULL, UNDEF}

\* Lines 200-212: each column that is null (=== null) takes what sharp
\* reports.
Inspected(newExif, metadata) ==
    [newExif EXCEPT
        !.exifImageHeight = IF @ = NULL THEN OrNull(metadata.height) ELSE @,
        !.exifImageWidth = IF @ = NULL THEN OrNull(metadata.width) ELSE @,
        !.orientation = IF @ = NULL
                        THEN (IF metadata.orientation # UNDEF THEN metadata.orientation ELSE NULL)
                        ELSE @]

\* Lines 199-213: sharp(asset.originalPath).metadata(), which may reject.
Inspect(k) ==
    /\ w[k].pc = "inspect"
    /\ IF NeedsInspection(w[k].newExif)
       THEN \/ /\ w' = [w EXCEPT ![k].newExif = Inspected(@, files[w[k].asset.id].sharp),
                                 ![k].pc = "upsert"]
               /\ UNCHANGED <<assets, exif, queue, files, faults, emitted, overlapped, assets0>>
            \/ Throws(k)
       ELSE /\ w' = [w EXCEPT ![k].pc = "upsert"]
            /\ UNCHANGED <<assets, exif, queue, files, faults, emitted, overlapped, assets0>>
    /\ UnchangedGeo

\* Lines 313-334: the streams of the probe.
Streams(k) ==
    /\ w[k].pc = "streams"
    /\ w' = [w EXCEPT ![k].newExif = WithStreams(@, files[w[k].asset.id].probe.streams),
                      ![k].pc = "upsert"]
    /\ UNCHANGED <<assets, exif, queue, files, faults, emitted, overlapped, assets0>>
    /\ UnchangedGeo

\* A write whose rejection would be caught in place, the run going on.
Upsert_swallows(k) ==
    /\ w[k].pc = "upsert"
    /\ \/ /\ exif' = upsert(exif, w[k].newExif)
          /\ w' = [w EXCEPT ![k].pc = "save"]
          /\ UNCHANGED <<assets, queue, files, faults, emitted, overlapped, assets0>>
       \/ /\ faults < MaxFaults
          /\ faults' = faults + 1
          /\ w' = [w EXCEPT ![k].pc = "save"]
          /\ UNCHANGED <<assets, exif, queue, files, emitted, overlapped, assets0>>
    /\ UnchangedGeo

\* Lines 215 and 336: the record is written, or the write rejects.
Upsert(k) ==
    /\ w[k].pc = "upsert"
    /\ \/ /\ exif' = upsert(exif, w[k].newExif)
          /\ w' = [w EXCEPT ![k].pc = "save"]
          /\ UNCHANGED <<assets, queue, files, faults, emitted, overlapped, assets0>>
       \/ Throws(k)
    /\ UnchangedGeo

\* A save that would store a shifted capture time (a local-time string
\* instead of toISOString()).
Saved_shifted(name, rows, id, fileCreatedAt, durationString) ==
    IF fileCreatedAt = NULL THEN rows
    ELSE save(rows, id, "fileCreatedAt", fileCreatedAt + 1)

\* Lines 216 and 337: the asset's capture time (and a video's duration) is
\* saved; the handler keeps the row the save returns.
Saved(name, rows, id, fileCreatedAt, durationString) ==
    IF name = EXIF_EXTRACTION
    THEN IF fileCreatedAt = NULL THEN rows
         ELSE save(rows, id, "fileCreatedAt", fileCreatedAt)
    ELSE save(save(rows, id, "duration", durationString), id, "fileCreatedAt", fileCreatedAt)

SaveAsset(k) ==
    /\ w[k].pc = "save"
    /\ \/ /\ assets' = Saved(w[k].name, assets, w[k].asset.id,
                             w[k].fileCreatedAt, w[k].durationString)
          /\ w' = [w EXCEPT ![k].asset = assets'[w[k].asset.id], ![k].pc = "queue"]
          /\ UNCHANGED <<exif, queue, files, faults, emitted, overlapped, assets0>>
       \/ Throws(k)
    /\ UnchangedGeo

\* Lines 217 and 338: the chained job is enqueued and the handler returns.
QueueMigration(k) ==
    /\ w[k].pc = "queue"
    /\ \/ /\ queue' = enqueue(queue, Job(STORAGE_TEMPLATE_MIGRATION_SINGLE, w[k].asset))
          /\ w' = [w EXCEPT ![k].pc = "done",
                            ![k].outcome = IF @ = "none" THEN "ok" ELSE @,
                            ![k].enqueued = @ + 1]
          /\ UNCHANGED <<assets, exif, files, faults, emitted, overlapped, assets0>>
       \/ Throws(k)
    /\ UnchangedGeo

\* ------------------------------------------------- the pairing pipeline
\* The files of a live photo: the still (asset 1, with a sidecar) and the
\* motion video (asset 2) carry the same content identifier.
StillTags ==
    [EmptyTags EXCEPT !["MediaGroupUUID"] = Str(1),
                      !["ExifImageHeight"] = Num(1),
                      !["ExifImageWidth"] = Num(1),
                      !["DateTimeOriginal"] = Edt(1, 1)]
StillSidecarTags == [EmptyTags EXCEPT !["Make"] = Str(1)]
MotionTags == [EmptyTags EXCEPT !["ContentIdentifier"] = Str(1)]
MotionProbe ==
    Probe(1, 1, TRUE, NULL, 1, << >>, << >>, <<Stream("video", 1, 1, NULL, Rate(2, 1))>>)

LivePhotoFiles ==
    [a \in AssetIds |->
        IF a = 1
        THEN File(StillTags, StillSidecarTags, 1, Sharp(1, 1, 1), NoProbe)
        ELSE File(MotionTags, EmptyTags, 1, Sharp(UNDEF, UNDEF, UNDEF), MotionProbe)]

LivePhotoAssets(stillVisible, motionVisible) ==
    [a \in AssetIds |->
        IF a = 1 THEN Asset(1, IMAGE, 1, stillVisible, 1, 1)
        ELSE Asset(2, VIDEO, 1, motionVisible, NULL, 1)]

NoInit == [pc |-> "idle", deleteCache |-> FALSE, calls |-> 0]
NoScan ==
    [pc |-> "idle", handler |-> "none", force |-> FALSE, cursor |-> 0,
     page |-> << >>, hasNextPage |-> TRUE, failed |-> {}, outcome |-> "none"]
NoMerge == [asset |-> NoAsset, sidecar |-> ReadNull, media |-> ReadNull]

InitWorkers ==
    /\ exif = {}
    /\ queue = EmptyBag
    /\ w = [k \in Workers |-> IdleWorker]
    /\ faults = 0
    /\ emitted = 0
    /\ overlapped = FALSE
    /\ assets0 = assets

InitGeoOff ==
    /\ reverseGeocodingEnabled = FALSE
    /\ indexState = "absent"
    /\ paused = FALSE
    /\ ini = NoInit
    /\ geoObserved = {}
    /\ indexWrites = {}

InitScanOff == scan = NoScan
InitMergeOff == mergeIn = NoMerge /\ mergeOut = NewExifEntity

\* No job has been delivered again.
NoRerun ==
    [on |-> FALSE, assets |-> LivePhotoAssets(TRUE, TRUE), exif |-> {}, faults |-> 0]
InitRerunOff == rerun = NoRerun

InitPair ==
    /\ \E stillVisible, motionVisible \in BOOLEAN :
          assets = LivePhotoAssets(stillVisible, motionVisible)
    /\ files = LivePhotoFiles
    /\ InitWorkers
    /\ InitGeoOff
    /\ InitScanOff
    /\ InitMergeOff
    /\ InitRerunOff

NextPair ==
    \/ \E a \in AssetIds : Emit(a)
    \/ \E k \in Workers : \E job \in BagToSet(queue) : StartJob(k, job)
    \/ \E k \in Workers : ReadMedia(k)
    \/ \E k \in Workers : ReadSidecar(k)
    \/ \E k \in Workers : Stat(k)
    \/ \E k \in Workers : Ffprobe(k)
    \/ \E k \in Workers : ReadVideoTags(k)
    \/ \E k \in Workers : Search(k)
    \/ \E k \in Workers : SaveLink(k)
    \/ \E k \in Workers : SaveHide(k)
    \/ \E k \in Workers : Location(k)
    \/ \E k \in Workers : applyReverseGeocoding(k)
    \/ \E k \in Workers : Inspect(k)
    \/ \E k \in Workers : Streams(k)
    \/ \E k \in Workers : Upsert(k)
    \/ \E k \in Workers : SaveAsset(k)
    \/ \E k \in Workers : QueueMigration(k)

SpecPair == InitPair /\ [][NextPair]_vars

\* ------------------------------------------------------------- init()
\* Calls of init() in one behaviour.
MaxInits == 1

\* The catch block of lines 71-73: the error is logged and init() returns.
InitCaught ==
    /\ faults < MaxFaults
    /\ faults' = faults + 1
    /\ ini' = [ini EXCEPT !.pc = "returned"]

\* An init() without the check of the configuration flag.
InitCall_unguarded(deleteCache) ==
    /\ ini.pc \in {"idle", "returned"}
    /\ ini.calls < MaxInits
    /\ ini' = [pc |-> IF deleteCache THEN "deleteCache" ELSE "pause",
               deleteCache |-> deleteCache, calls |-> ini.calls + 1]
    /\ UNCHANGED <<reverseGeocodingEnabled, indexState, paused, geoObserved, indexWrites, faults>>
    /\ UNCHANGED <<assets, exif, queue, w, files, emitted, overlapped, assets0>>
    /\ UNCHANGED <<scanVars, mergeVars, histVars>>

\* Lines 54-58: init(deleteCache) is called; it returns at once when reverse
\* geocoding is disabled.
InitCall(deleteCache) ==
    /\ ini.pc \in {"idle", "returned"}
    /\ ini.calls < MaxInits
    /\ ini' = [pc |-> IF ~reverseGeocodingEnabled THEN "returned"
                      ELSE IF deleteCache THEN "deleteCache" ELSE "pause",
               deleteCache |-> deleteCache, calls |-> ini.calls + 1]
    /\ UNCHANGED <<reverseGeocodingEnabled, indexState, paused, geoObserved, indexWrites, faults>>
    /\ UNCHANGED <<assets, exif, queue, w, files, emitted, overlapped, assets0>>
    /\ UNCHANGED <<scanVars, mergeVars, histVars>>

\* Lines 61-63: geocodingRepository.deleteCache() purges the index.
DeleteCache ==
    /\ ini.pc = "deleteCache"
    /\ \/ /\ indexState' = "absent"
          /\ indexWrites' = indexWrites \cup {[op |-> "deleteCache", paused |-> paused]}
          /\ ini' = [ini EXCEPT !.pc = "pause"]
          /\ UNCHANGED faults
       \/ /\ InitCaught
          /\ UNCHANGED <<indexState, indexWrites>>
    /\ UNCHANGED <<reverseGeocodingEnabled, paused, geoObserved>>
    /\ UNCHANGED <<assets, exif, queue, w, files, emitted, overlapped, assets0>>
    /\ UNCHANGED <<scanVars, mergeVars, histVars>>

\* Line 66: jobRepository.pause(QueueName.METADATA_EXTRACTION)
Pause ==
    /\ ini.pc = "pause"
    /\ \/ /\ paused' = TRUE
          /\ ini' = [ini EXCEPT !.pc = "init"]
          /\ UNCHANGED faults
       \/ /\ InitCaught
          /\ UNCHANGED paused
    /\ UNCHANGED <<reverseGeocodingEnabled, indexState, geoObserved, indexWrites>>
    /\ UNCHANGED <<assets, exif, queue, w, files, emitted, overlapped, assets0>>
    /\ UNCHANGED <<scanVars, mergeVars, histVars>>

\* Line 67: geocodingRepository.init() is called and starts building the index.
BuildStart ==
    /\ ini.pc = "init"
    /\ indexState' = "building"
    /\ indexWrites' = indexWrites \cup {[op |-> "init", paused |-> paused]}
    /\ ini' = [ini EXCEPT !.pc = "building"]
    /\ UNCHANGED <<reverseGeocodingEnabled, paused, geoObserved, faults>>
    /\ UNCHANGED <<assets, exif, queue, w, files, emitted, overlapped, assets0>>
    /\ UNCHANGED <<scanVars, mergeVars, histVars>>

\* Line 67: geocodingRepository.init() resolves, or rejects and the catch
\* block of line 71 runs.
BuildEnd ==
    /\ ini.pc = "building"
    /\ \/ /\ indexState' = "ready"
          /\ ini' = [ini EXCEPT !.pc = "resume"]
          /\ UNCHANGED faults
       \/ /\ InitCaught
          /\ indexState' = "absent"
    /\ UNCHANGED <<reverseGeocodingEnabled, paused, geoObserved, indexWrites>>
    /\ UNCHANGED <<assets, exif, queue, w, files, emitted, overlapped, assets0>>
    /\ UNCHANGED <<scanVars, mergeVars, histVars>>

\* Line 68: jobRepository.resume(QueueName.METADATA_EXTRACTION)
Resume ==
    /\ ini.pc = "resume"
    /\ \/ /\ paused' = FALSE
          /\ ini' = [ini EXCEPT !.pc = "returned"]
          /\ UNCHANGED faults
       \/ /\ InitCaught
          /\ UNCHANGED paused
    /\ UNCHANGED <<reverseGeocodingEnabled, indexState, geoObserved, indexWrites>>
    /\ UNCHANGED <<assets, exif, queue, w, files, emitted, overlapped, assets0>>
    /\ UNCHANGED <<scanVars, mergeVars, histVars>>

\* Assets with coordinates and no content identifier: a photo (asset 1)
\* with GPS tags and a video (asset 2) with a location tag.
GpsTags ==
    [EmptyTags EXCEPT !["GPSLatitude"] = Num(1), !["GPSLongitude"] = Num(1),
                      !["ExifImageHeight"] = Num(1), !["ExifImageWidth"] = Num(1),
                      !["Orientation"] = Num(1)]
GpsProbe ==
    Probe(1, 1, TRUE, 1, NULL, <<Group(1), Group(1), Slash>>, << >>,
          <<Stream("video", 1, 1, 1, Rate(2, 1))>>)

GpsFiles ==
    [a \in AssetIds |->
        IF a = 1
        THEN File(GpsTags, EmptyTags, 1, Sharp(1, 1, 1), NoProbe)
        ELSE File(EmptyTags, EmptyTags, 1, Sharp(UNDEF, UNDEF, UNDEF), GpsProbe)]

GpsAssets ==
    [a \in AssetIds |->
        IF a = 1 THEN Asset(1, IMAGE, 1, TRUE, NULL, 1)
        ELSE Asset(2, VIDEO, 1, TRUE, NULL, 1)]

InitGeo ==
    /\ assets = GpsAssets
    /\ files = GpsFiles
    /\ InitWorkers
    /\ reverseGeocodingEnabled \in BOOLEAN
    /\ indexState = "absent"
    /\ paused = FALSE
    /\ ini = NoInit
    /\ geoObserved = {}
    /\ indexWrites = {}
    /\ InitScanOff
    /\ InitMergeOff
    /\ InitRerunOff

\* One extraction slot runs next to init().
GeoWorkers == {1}

NextGeo ==
    \/ \E deleteCache \in BOOLEAN : InitCall(deleteCache)
    \/ DeleteCache
    \/ Pause
    \/ BuildStart
    \/ BuildEnd
    \/ Resume
    \/ \E a \in AssetIds : Emit(a)
    \/ \E k \in GeoWorkers : \E job \in BagToSet(queue) : StartJob(k, job)
    \/ \E k \in GeoWorkers : ReadMedia(k)
    \/ \E k \in GeoWorkers : Stat(k)
    \/ \E k \in GeoWorkers : Ffprobe(k)
    \/ \E k \in GeoWorkers : ReadVideoTags(k)
    \/ \E k \in GeoWorkers : Location(k)
    \/ \E k \in GeoWorkers : applyReverseGeocoding(k)
    \/ \E k \in GeoWorkers : Inspect(k)
    \/ \E k \in GeoWorkers : Streams(k)
    \/ \E k \in GeoWorkers : Upsert(k)
    \/ \E k \in GeoWorkers : SaveAsset(k)
    \/ \E k \in GeoWorkers : QueueMigration(k)

SpecGeo == InitGeo /\ [][NextGeo]_vars

\* ------------------------------------------------------ scan dispatcher
\* Assets in the repository when a scan runs.
NumScanAssets == 3
\* Page size of the scans.
JOBS_ASSET_PAGINATION_SIZE == 2

ScanIds == 1 .. NumScanAssets
QUEUE_METADATA_EXTRACTION == "queue-metadata-extraction"
QUEUE_SIDECAR == "queue-sidecar"

\* The assets a scan enumerates: getAll, getWithout(EXIF), getWith(SIDECAR)
\* or getWithout(SIDECAR) (lines 81-83 and 391-393).
Target(handler, force) ==
    IF handler = QUEUE_METADATA_EXTRACTION
    THEN IF force THEN ScanIds
         ELSE {a \in ScanIds : ~\E e \in exif : e.assetId = a}
    ELSE IF force THEN {a \in ScanIds : assets[a].sidecarPath # NULL}
         ELSE {a \in ScanIds : assets[a].sidecarPath = NULL}

\* The ids of a set, lowest first.
RECURSIVE Sorted(_)
Sorted(ids) ==
    IF ids = {} THEN << >>
    ELSE LET least == CHOOSE a \in ids : \A b \in ids : a <= b
         IN  <<least>> \o Sorted(ids \ {least})

\* usePagination's page source: the next page after the cursor, at most
\* JOBS_ASSET_PAGINATION_SIZE rows, and whether more rows follow.
NextPage(handler, force, cursor) ==
    LET rest == Sorted({a \in Target(handler, force) : a > cursor})
        n == IF Len(rest) < JOBS_ASSET_PAGINATION_SIZE THEN Len(rest)
             ELSE JOBS_ASSET_PAGINATION_SIZE
    IN  [items |-> [i \in 1 .. n |-> assets[rest[i]]], hasNextPage |-> Len(rest) > n]

\* Lines 88 and 398: the name of the job emitted for a row.
EmittedName(handler, force, asset) ==
    IF handler = QUEUE_METADATA_EXTRACTION
    THEN IF asset.type = VIDEO THEN EXTRACT_VIDEO_METADATA ELSE EXIF_EXTRACTION
    ELSE IF force THEN SIDECAR_SYNC ELSE SIDECAR_DISCOVERY

\* An emission that would enqueue both extraction jobs for the row.
Emission_both(handler, force, asset) ==
    SetToBag({Job(EXIF_EXTRACTION, asset), Job(EXTRACT_VIDEO_METADATA, asset)})

\* Lines 88-89 and 398-399: what one turn of the inner loop enqueues.
Emission(handler, force, asset) ==
    SetToBag({Job(EmittedName(handler, force, asset), asset)})

UnchangedByScan ==
    /\ UNCHANGED <<assets, exif, w, files, emitted, overlapped, assets0>>
    /\ UNCHANGED <<geoVars, mergeVars, histVars>>

\* Lines 215 and 336, seen from the scan: an extraction worker stores the
\* record of an asset that had none while the scan runs.
ConcurrentUpsert(a) ==
    /\ scan.pc \in {"fetch", "emit"}
    /\ ~\E e \in exif : e.assetId = a
    /\ exif' = upsert(exif, [NewExifEntity EXCEPT !.assetId = a])
    /\ UNCHANGED <<assets, queue, w, files, faults, emitted, overlapped, assets0>>
    /\ UNCHANGED <<geoVars, scanVars, mergeVars, histVars>>

\* Lines 77-79 and 387-389: a scan job is delivered to its handler.
ScanStart(handler, force) ==
    /\ scan.pc = "idle"
    /\ scan' = [NoScan EXCEPT !.pc = "fetch", !.handler = handler, !.force = force]
    /\ UNCHANGED <<queue, faults>>
    /\ UnchangedByScan

\* The catch blocks of lines 92-94 and 402-404: the error is logged and the
\* handler returns, the iteration over pages abandoned.
ScanCaught(failed) ==
    /\ faults < MaxFaults
    /\ faults' = faults + 1
    /\ scan' = [scan EXCEPT !.pc = "done", !.outcome = "caught", !.failed = @ \cup failed]

\* Lines 86 and 396: the iterator pulls the next page, or the page source
\* rejects.
FetchPage ==
    /\ scan.pc = "fetch"
    /\ \/ LET result == NextPage(scan.handler, scan.force, scan.cursor)
          IN  /\ scan' = [scan EXCEPT
                            !.page = result.items,
                            !.hasNextPage = result.hasNextPage,
                            !.cursor = IF result.items = << >> THEN @
                                       ELSE result.items[Len(result.items)].id,
                            !.pc = IF result.items # << >> THEN "emit"
                                   ELSE IF result.hasNextPage THEN "fetch" ELSE "done",
                            !.outcome = IF result.items = << >> /\ ~result.hasNextPage
                                        THEN "ok" ELSE @]
              /\ UNCHANGED faults
       \/ ScanCaught({})
    /\ UNCHANGED queue
    /\ UnchangedByScan

\* Lines 87-90 and 397-400: a job is enqueued for the next row of the page,
\* or the enqueue rejects.
EmitJob ==
    /\ scan.pc = "emit"
    /\ LET asset == Head(scan.page)
           last == Len(scan.page) = 1
       IN  \/ /\ queue' = queue (+) Emission(scan.handler, scan.force, asset)
              /\ scan' = [scan EXCEPT
                            !.page = Tail(@),
                            !.pc = IF ~last THEN "emit"
                                   ELSE IF scan.hasNextPage THEN "fetch" ELSE "done",
                            !.outcome = IF last /\ ~scan.hasNextPage THEN "ok" ELSE @]
              /\ UNCHANGED faults
           \/ /\ ScanCaught({asset.id})
              /\ UNCHANGED queue
    /\ UnchangedByScan

ScanAssets(sidecars) ==
    [a \in ScanIds |->
        Asset(a, IF a % 2 = 0 THEN VIDEO ELSE IMAGE, 1, TRUE,
              IF a \in sidecars THEN 1 ELSE NULL, 1)]

InitScan ==
    /\ \E sidecars \in SUBSET ScanIds : assets = ScanAssets(sidecars)
    /\ \E done \in SUBSET ScanIds :
          exif = {[NewExifEntity EXCEPT !.assetId = a] : a \in done}
    /\ files = LivePhotoFiles
    /\ queue = EmptyBag
    /\ w = [k \in Workers |-> IdleWorker]
    /\ faults = 0
    /\ emitted = 0
    /\ overlapped = FALSE
    /\ assets0 = assets
    /\ InitGeoOff
    /\ scan = NoScan
    /\ InitMergeOff
    /\ InitRerunOff

NextScan ==
    \/ \E handler \in {QUEUE_METADATA_EXTRACTION, QUEUE_SIDECAR} :
          \E force \in BOOLEAN : ScanStart(handler, force)
    \/ FetchPage
    \/ EmitJob
    \/ \E a \in ScanIds : ConcurrentUpsert(a)

SpecScan == InitScan /\ [][NextScan]_vars

\* ------------------------------------------------------------ the merge
DateColumns == {"dateTimeOriginal", "timeZone", "modifyDate"}

\* The raw values a tag of a column's request list may hold in the merge
\* inputs.
RawValues(column) ==
    {Absent} \cup
    (IF column \in DateColumns
     THEN {Str(n) : n \in 1 .. MaxTagVal}
          \cup {Edt(n, zone) : n \in 1 .. MaxTagVal, zone \in {NULL, 1}}
     ELSE IF column = "iso"
     THEN {Num(n) : n \in 0 .. MaxTagVal} \cup {Arr(n) : n \in 0 .. MaxTagVal}
     ELSE {Num(n) : n \in 0 .. MaxTagVal} \cup {Str(n) : n \in 1 .. MaxTagVal})

Range(f) == {f[i] : i \in DOMAIN f}

\* The tag mappings that populate only the tags of a column's request list.
TagsFor(column) ==
    LET names == Range(Request(column))
    IN  {[t \in TagNames |-> IF t \in names THEN part[t] ELSE Absent] :
            part \in [names -> RawValues(column)]}

InitMerge ==
    /\ \E column \in TagColumns :
       \E sidecar \in {ReadOk(tags) : tags \in TagsFor(column)} \cup {ReadNull} :
       \E media \in {ReadOk(tags) : tags \in TagsFor(column)} \cup {ReadNull} :
       \E created \in {NULL, 1} :
          mergeIn = [asset |-> Asset(1, IMAGE, 1, TRUE, 1, created),
                     sidecar |-> sidecar, media |-> media]
    /\ mergeOut = NewExifEntity
    /\ assets = LivePhotoAssets(TRUE, TRUE)
    /\ files = LivePhotoFiles
    /\ InitWorkers
    /\ InitGeoOff
    /\ InitScanOff
    /\ InitRerunOff

\* Lines 150-178 applied to the inputs.
Merge ==
    /\ mergeOut.assetId = UNDEF
    /\ mergeOut' = ImageExif(mergeIn.asset, mergeIn.sidecar, mergeIn.media, 1)
    /\ UNCHANGED <<mergeIn, pipeVars, geoVars, scanVars, histVars>>

SpecMerge == InitMerge /\ [][Merge]_vars

\* ------------------------------------------------------ SidecarProcessor
SidecarJobs == {SIDECAR_SYNC, SIDECAR_DISCOVERY}

\* A variant that always re-triggers the image handler.
ExtractionName_image(asset) == EXIF_EXTRACTION

\* Lines 415 and 439: the extraction job that fits the asset's type.
ExtractionName(asset) ==
    IF asset.type = VIDEO THEN EXTRACT_VIDEO_METADATA ELSE EXIF_EXTRACTION

\* Lines 398-399: a sidecar job is emitted for an asset, carrying the row as
\* it is now.
EmitSidecar(a, name) ==
    /\ emitted < MaxJobs
    /\ emitted' = emitted + 1
    /\ queue' = enqueue(queue, Job(name, assets[a]))
    /\ UNCHANGED <<assets, exif, w, files, faults, overlapped, assets0>>
    /\ UnchangedGeo

\* Lines 407-412 and 422-431: a free slot of the sidecar queue takes a job.
\* Both handlers return at once for a snapshot that is not visible, the
\* discovery handler also for one that has a sidecar path.
StartSidecarJob(k, job) ==
    /\ ~Busy(k)
    /\ job \in BagToSet(queue)
    /\ job.name \in SidecarJobs
    /\ queue' = queue (-) SetToBag({job})
    /\ LET skip == \/ ~job.asset.isVisible
                   \/ job.name = SIDECAR_DISCOVERY /\ job.asset.sidecarPath # NULL
       IN  w' = [w EXCEPT ![k] =
                   [IdleWorker EXCEPT
                       !.name = job.name, !.data = job.asset, !.asset = job.asset,
                       !.pc = IF skip THEN "done"
                              ELSE IF job.name = SIDECAR_SYNC THEN "sync" ELSE "access",
                       !.outcome = IF skip THEN "skipped" ELSE "none"]]
    /\ overlapped' = (overlapped \/ \E o \in Workers \ {k} : Busy(o))
    /\ UNCHANGED <<assets, exif, files, faults, emitted, assets0>>
    /\ UnchangedGeo

\* The catch blocks of lines 417-419 and 441-443: the error is logged and
\* the handler returns.
SidecarCaught(k) ==
    /\ faults < MaxFaults
    /\ faults' = faults + 1
    /\ w' = [w EXCEPT ![k].pc = "done", ![k].outcome = "caught"]

\* Lines 414-419: handleSidecarSync enqueues the extraction job, or the
\* enqueue rejects.
SidecarSync(k) ==
    /\ w[k].pc = "sync"
    /\ \/ /\ queue' = enqueue(queue, Job(ExtractionName(w[k].asset), w[k].asset))
          /\ w' = [w EXCEPT ![k].pc = "done", ![k].outcome = "ok", ![k].enqueued = @ + 1]
          /\ UNCHANGED faults
       \/ /\ SidecarCaught(k)
          /\ UNCHANGED queue
    /\ UNCHANGED <<assets, exif, files, emitted, overlapped, assets0>>
    /\ UnchangedGeo

\* Lines 433-434 and 444-450: fs.promises.access(<originalPath>.xmp, W_OK)
\* resolves, or rejects with ENOENT or EACCES and the handler returns.
Access(k) ==
    /\ w[k].pc = "access"
    /\ \E result \in {"ok", "ENOENT", "EACCES"} :
          w' = [w EXCEPT ![k].pc = IF result = "ok" THEN "saveSidecar" ELSE "done",
                         ![k].outcome = IF result = "ok" THEN @ ELSE result]
    /\ UNCHANGED <<assets, exif, queue, files, faults, emitted, overlapped, assets0>>
    /\ UnchangedGeo

\* A save whose returned row would be dropped, the snapshot kept.
SaveSidecarPath_stale(k) ==
    /\ assets' = save(assets, w[k].asset.id, "sidecarPath", 1)
    /\ w' = [w EXCEPT ![k].pc = "queueExtraction"]

\* Line 437: asset = await assetCore.save({ id, sidecarPath }); the handler
\* keeps the row the save returns.
SaveSidecarPath(k) ==
    /\ assets' = save(assets, w[k].asset.id, "sidecarPath", 1)
    /\ w' = [w EXCEPT ![k].asset = assets'[w[k].asset.id], ![k].pc = "queueExtraction"]

\* Lines 436-443: the save, which may reject.
SaveSidecar(k) ==
    /\ w[k].pc = "saveSidecar"
    /\ \/ /\ SaveSidecarPath(k)
          /\ UNCHANGED faults
       \/ /\ SidecarCaught(k)
          /\ UNCHANGED assets
    /\ UNCHANGED <<exif, queue, files, emitted, overlapped, assets0>>
    /\ UnchangedGeo

\* Lines 439-440: the extraction job is enqueued with the saved row, or the
\* enqueue rejects.
QueueExtraction(k) ==
    /\ w[k].pc = "queueExtraction"
    /\ \/ /\ queue' = enqueue(queue, Job(ExtractionName(w[k].asset), w[k].asset))
          /\ w' = [w EXCEPT ![k].pc = "done", ![k].outcome = "ok", ![k].enqueued = @ + 1]
          /\ UNCHANGED faults
       \/ /\ SidecarCaught(k)
          /\ UNCHANGED queue
    /\ UNCHANGED <<assets, exif, files, emitted, overlapped, assets0>>
    /\ UnchangedGeo

\* An image (asset 1) and a video (asset 2), each visible or not, each with
\* or without a recorded sidecar path.
SidecarAssets(visible, sidecars) ==
    [a \in AssetIds |->
        Asset(a, IF a = 1 THEN IMAGE ELSE VIDEO, 1, a \in visible,
              IF a \in sidecars THEN 1 ELSE NULL, 1)]

InitSidecar ==
    /\ \E visible, sidecars \in SUBSET AssetIds :
          assets = SidecarAssets(visible, sidecars)
    /\ files = LivePhotoFiles
    /\ InitWorkers
    /\ InitGeoOff
    /\ InitScanOff
    /\ InitMergeOff
    /\ InitRerunOff

NextSidecar ==
    \/ \E a \in AssetIds : \E name \in SidecarJobs : EmitSidecar(a, name)
    \/ \E k \in Workers : \E job \in BagToSet(queue) : StartSidecarJob(k, job)
    \/ \E k \in Workers : SidecarSync(k)
    \/ \E k \in Workers : Access(k)
    \/ \E k \in Workers : SaveSidecar(k)
    \/ \E k \in Workers : QueueExtraction(k)

SpecSidecar == InitSidecar /\ [][NextSidecar]_vars

\* --------------------------------------------------------- re-extraction
\* The live photo without capture dates in its tags: the records then take
\* the capture time from the asset row.
UndatedFiles ==
    [a \in AssetIds |->
        IF a = 1
        THEN File([StillTags EXCEPT !["DateTimeOriginal"] = Absent],
                  StillSidecarTags, 1, Sharp(1, 1, 1), NoProbe)
        ELSE File(MotionTags, EmptyTags, 1, Sharp(UNDEF, UNDEF, UNDEF),
                  Probe(1, 1, TRUE, NULL, NULL, << >>, << >>,
                        <<Stream("video", 1, 1, NULL, Rate(2, 1))>>))]

\* The jobs of this pipeline run one at a time in one slot.
RerunWorkers == {1}

Pending == \E job \in BagToSet(queue) : job.name \in ExtractionJobs

\* At-least-once delivery: the job whose run has just returned without a
\* failure is delivered again, with the snapshot it had (a duplicate) or
\* with the row as it is now (a new job for the same asset).  The rows and
\* records at that point are kept for comparison.
Redeliver(k, fresh) ==
    /\ ~rerun.on
    /\ w[k].pc = "done" /\ w[k].name \in ExtractionJobs
    /\ w[k].outcome = "ok" /\ w[k].media.ok /\ w[k].sidecar.ok
    /\ ~Pending
    /\ queue' = enqueue(queue, Job(w[k].name, IF fresh THEN assets[w[k].data.id]
                                              ELSE w[k].data))
    /\ rerun' = [on |-> TRUE, assets |-> assets, exif |-> exif, faults |-> faults]
    /\ UNCHANGED <<assets, exif, w, files, faults, emitted, overlapped, assets0>>
    /\ UNCHANGED <<geoVars, scanVars, mergeVars>>

InitRerun ==
    /\ assets = LivePhotoAssets(TRUE, TRUE)
    /\ files \in {LivePhotoFiles, UndatedFiles}
    /\ InitWorkers
    /\ InitGeoOff
    /\ InitScanOff
    /\ InitMergeOff
    /\ InitRerunOff

NextRerun ==
    \/ \E a \in AssetIds : ~rerun.on /\ Emit(a)
    \/ \E k \in RerunWorkers : \E fresh \in BOOLEAN : Redeliver(k, fresh)
    \/ \E k \in RerunWorkers : \E job \in BagToSet(queue) : StartJob(k, job)
    \/ \E k \in RerunWorkers : ReadMedia(k)
    \/ \E k \in RerunWorkers : ReadSidecar(k)
    \/ \E k \in RerunWorkers : Stat(k)
    \/ \E k \in RerunWorkers : Ffprobe(k)
    \/ \E k \in RerunWorkers : ReadVideoTags(k)
    \/ \E k \in RerunWorkers : Search(k)
    \/ \E k \in RerunWorkers : SaveLink(k)
    \/ \E k \in RerunWorkers : SaveHide(k)
    \/ \E k \in RerunWorkers : Location(k)
    \/ \E k \in RerunWorkers : applyReverseGeocoding(k)
    \/ \E k \in RerunWorkers : Inspect(k)
    \/ \E k \in RerunWorkers : Streams(k)
    \/ \E k \in RerunWorkers : Upsert(k)
    \/ \E k \in RerunWorkers : SaveAsset(k)
    \/ \E k \in RerunWorkers : QueueMigration(k)

SpecRerun == InitRerun /\ [][NextRerun]_vars

\* ------------------------------------------------- pairing candidates
\* Asset 1 is the still of the live photo.  Asset 2 is an image or a video,
\* of the same owner or another one, with the still's content identifier
\* (1) or another one (2) in its tags.
CandidateFiles(type, cid) ==
    [a \in AssetIds |->
        IF a = 1 THEN LivePhotoFiles[1]
        ELSE IF type = VIDEO
        THEN File([EmptyTags EXCEPT !["ContentIdentifier"] = Str(cid)], EmptyTags, 1,
                  Sharp(UNDEF, UNDEF, UNDEF), MotionProbe)
        ELSE File([StillTags EXCEPT !["MediaGroupUUID"] = Str(cid)], EmptyTags, 1,
                  Sharp(1, 1, 1), NoProbe)]

CandidateAssets(type, ownerId) ==
    [a \in AssetIds |->
        IF a = 1 THEN Asset(1, IMAGE, 1, TRUE, 1, 1)
        ELSE Asset(2, type, ownerId, TRUE, NULL, 1)]

InitLink ==
    /\ \E type \in {IMAGE, VIDEO} : \E ownerId, cid \in 1 .. 2 :
          /\ assets = CandidateAssets(type, ownerId)
          /\ files = CandidateFiles(type, cid)
    /\ InitWorkers
    /\ InitGeoOff
    /\ InitScanOff
    /\ InitMergeOff
    /\ InitRerunOff

SpecLink == InitLink /\ [][NextPair]_vars

\* ------------------------------------------- pairing next to geocoding
\* The live photo with coordinates: GPS tags in the still, a location tag
\* in the video.
LocatedFiles ==
    [a \in AssetIds |->
        IF a = 1
        THEN File([StillTags EXCEPT !["GPSLatitude"] = Num(1), !["GPSLongitude"] = Num(1)],
                  StillSidecarTags, 1, Sharp(1, 1, 1), NoProbe)
        ELSE File(MotionTags, EmptyTags, 1, Sharp(UNDEF, UNDEF, UNDEF),
                  Probe(1, 1, TRUE, NULL, 1, <<Group(1), Group(1), Slash>>, << >>,
                        <<Stream("video", 1, 1, NULL, Rate(2, 1))>>))]

\* Reverse geocoding is enabled and init() has built the index.
InitOrder ==
    /\ assets = LivePhotoAssets(TRUE, TRUE)
    /\ files = LocatedFiles
    /\ InitWorkers
    /\ reverseGeocodingEnabled = TRUE
    /\ indexState = "ready"
    /\ paused = FALSE
    /\ ini = [pc |-> "returned", deleteCache |-> FALSE, calls |-> MaxInits]
    /\ geoObserved = {}
    /\ indexWrites = {[op |-> "init", paused |-> TRUE]}
    /\ InitScanOff
    /\ InitMergeOff
    /\ InitRerunOff

SpecOrder == InitOrder /\ [][NextPair]_vars

\* --------------------------------------------- dimensions and frame rate
\* The largest numerator and denominator of a frame rate.
MaxRate == 3

\* The largest number of tokens of a location string.
MaxLocLen == 4

\* The location strings of at most n tokens.
RECURSIVE Locations(_)
Locations(n) ==
    IF n = 0 THEN {<< >>}
    ELSE LET shorter == Locations(n - 1)
         IN  shorter \cup {Append(l, t) : l \in shorter,
                                          t \in {Group(1), Group(2), Slash, Other}}

\* What the tools may report for an image and a video that are not paired.
\* Either the image varies (its dimension and orientation tags present or
\* not, 0 included, and what sharp reports, never a value of a tag), or the
\* video does: the rate of its one stream (missing, "n", "n/d" with either
\* part possibly not a number, "n/d/e"), or one of its two location tags
\* (any string of tokens).
DerivedFiles ==
    LET Dim == {Absent} \cup {Num(n) : n \in 0 .. MaxTagVal}
        Seen == {UNDEF, MaxTagVal + 1}
        Part == {NAN} \cup (0 .. MaxRate)
        Rates == {Rate(n, d) : n \in Part, d \in Part}
                     \cup {NoRate, [parts |-> 1, num |-> 1, den |-> 0],
                           [parts |-> 3, num |-> 1, den |-> 2]}
        Image(h, wi, o, sh) ==
            File([EmptyTags EXCEPT !["ExifImageHeight"] = h, !["ExifImageWidth"] = wi,
                                   !["Orientation"] = o],
                 StillSidecarTags, 1, sh, NoProbe)
        Video(r) ==
            File(EmptyTags, EmptyTags, 1, Sharp(UNDEF, UNDEF, UNDEF),
                 Probe(1, 1, TRUE, NULL, 1, << >>, << >>,
                       <<Stream("video", 1, 1, NULL, r)>>))
        Placed(location, iso6709) ==
            File(EmptyTags, EmptyTags, 1, Sharp(UNDEF, UNDEF, UNDEF),
                 Probe(1, 1, TRUE, NULL, 1, location, iso6709,
                       <<Stream("video", 1, 1, NULL, Rate(2, 1))>>))
        Still == Image(Num(1), Num(1), Num(1), Sharp(1, 1, 1))
    IN  {[a \in AssetIds |-> IF a = 1 THEN Image(h, wi, o, Sharp(sh, sw, so))
                             ELSE Video(Rate(2, 1))] :
             h \in Dim, wi \in Dim, o \in {Absent, Num(1)},
             sh \in Seen, sw \in Seen, so \in Seen}
        \cup {[a \in AssetIds |-> IF a = 1 THEN Still ELSE Video(r)] : r \in Rates}
        \cup {[a \in AssetIds |-> IF a = 1 THEN Still ELSE Placed(l, << >>)] :
                  l \in Locations(MaxLocLen)}
        \cup {[a \in AssetIds |-> IF a = 1 THEN Still ELSE Placed(<< >>, l)] :
                  l \in Locations(MaxLocLen)}

InitDerive ==
    /\ assets = LivePhotoAssets(TRUE, TRUE)
    /\ files \in DerivedFiles
    /\ InitWorkers
    /\ InitGeoOff
    /\ InitScanOff
    /\ InitMergeOff
    /\ InitRerunOff

NextDerive ==
    \/ \E a \in AssetIds : Emit(a)
    \/ \E k \in RerunWorkers : \E job \in BagToSet(queue) : StartJob(k, job)
    \/ \E k \in RerunWorkers : ReadMedia(k)
    \/ \E k \in RerunWorkers : ReadSidecar(k)
    \/ \E k \in RerunWorkers : Stat(k)
    \/ \E k \in RerunWorkers : Ffprobe(k)
    \/ \E k \in RerunWorkers : ReadVideoTags(k)
    \/ \E k \in RerunWorkers : Location(k)
    \/ \E k \in RerunWorkers : applyReverseGeocoding(k)
    \/ \E k \in RerunWorkers : Inspect(k)
    \/ \E k \in RerunWorkers : Streams(k)
    \/ \E k \in RerunWorkers : Upsert(k)
    \/ \E k \in RerunWorkers : SaveAsset(k)
    \/ \E k \in RerunWorkers : QueueMigration(k)

SpecDerive == InitDerive /\ [][NextDerive]_vars

\* ------------------------------------------ a shared content identifier
\* Three assets of one owner uploaded together, all with content identifier
\* 1 in their tags: an image, a video, and one more image or video.  The
\* upload has enqueued the extraction job of each.
InitShared ==
    /\ \E third \in {IMAGE, VIDEO} :
          /\ assets = [a \in 1 .. 3 |->
                          Asset(a, IF a = 1 THEN IMAGE ELSE IF a = 2 THEN VIDEO ELSE third,
                                1, TRUE, NULL, 1)]
          /\ files = [a \in 1 .. 3 |->
                          IF assets[a].type = IMAGE
                          THEN File(StillTags, EmptyTags, 1, Sharp(1, 1, 1), NoProbe)
                          ELSE File(MotionTags, EmptyTags, 1, Sharp(UNDEF, UNDEF, UNDEF),
                                    MotionProbe)]
    /\ exif = {}
    /\ queue = SetToBag({Job(IF assets[a].type = VIDEO THEN EXTRACT_VIDEO_METADATA
                             ELSE EXIF_EXTRACTION, assets[a]) : a \in 1 .. 3})
    /\ w = [k \in Workers |-> IdleWorker]
    /\ faults = 0
    /\ emitted = 3
    /\ overlapped = FALSE
    /\ assets0 = assets
    /\ InitGeoOff
    /\ InitScanOff
    /\ InitMergeOff
    /\ InitRerunOff

NextShared ==
    \/ \E k \in Workers : \E job \in BagToSet(queue) : StartJob(k, job)
    \/ \E k \in Workers : ReadMedia(k)
    \/ \E k \in Workers : Stat(k)
    \/ \E k \in Workers : Ffprobe(k)
    \/ \E k \in Workers : ReadVideoTags(k)
    \/ \E k \in Workers : Search(k)
    \/ \E k \in Workers : SaveLink(k)
    \/ \E k \in Workers : SaveHide(k)
    \/ \E k \in Workers : Location(k)
    \/ \E k \in Workers : applyReverseGeocoding(k)
    \/ \E k \in Workers : Inspect(k)
    \/ \E k \in Workers : Streams(k)
    \/ \E k \in Workers : Upsert(k)
    \/ \E k \in Workers : SaveAsset(k)
    \/ \E k \in Workers : QueueMigration(k)

SpecShared == InitShared /\ [][NextShared]_vars

\* ------------------------------------------------ claims on the pipeline
\* A run for asset a went through to its chained job.
Chained(a) ==
    \E job \in BagToSet(queue) :
        job.name = STORAGE_TEMPLATE_MIGRATION_SINGLE /\ job.asset.id = a

\* The still (1) and the video (2) are paired.
Paired ==
    /\ assets[1].livePhotoVideoId = 2
    /\ ~assets[2].isVisible
    /\ assets[2].livePhotoVideoId = NULL
    /\ assets[1].isVisible

\* Both assets started visible and unlinked, a job ran to its end for each,
\* in whatever order, no step failed, and every handler has returned.
BothRan ==
    /\ assets0[1].isVisible /\ assets0[2].isVisible
    /\ Chained(1) /\ Chained(2)
    /\ faults = 0
    /\ \A k \in Workers : ~Busy(k)

\* C1: the image job for A and the video job for B, run one after the other
\* in either order without a failure, end with A linked to B, B not visible
\* and without a forward link, A visible.
C1_SequentialPairing == (BothRan /\ ~overlapped) => Paired

\* C1 witness: the video's job ran first and the still's job, run after it,
\* found the video; they are paired.
C1_Witness ==
    /\ BothRan /\ ~overlapped /\ Paired
    /\ \E k \in Workers : w[k].name = EXIF_EXTRACTION /\ w[k].match = 2

\* C2: under every interleaving of the two jobs on two workers, once both
\* have finished A is linked to B and B is not visible.
C2_ConcurrentPairing ==
    BothRan => (assets[1].livePhotoVideoId = 2 /\ ~assets[2].isVisible)

\* C7: a step of an extraction job that fails ends the run in the catch
\* block: the failing step changes no asset, no metadata record and enqueues
\* nothing, the run has enqueued no chained job, and nothing more happens in
\* the slot but the start of another job.
C7_FailureAbandons ==
    [][\A k \in Workers :
         /\ (w[k].outcome # "caught" /\ w'[k].outcome = "caught") =>
               /\ w'[k].pc = "done"
               /\ w'[k].enqueued = 0
               /\ assets' = assets /\ exif' = exif /\ queue' = queue
         /\ (w[k].outcome = "caught" /\ w'[k] # w[k]) =>
               /\ w[k].pc = "done"
               /\ w'[k].outcome # "caught" /\ w'[k].enqueued = 0
               /\ w'[k].newExif = NewExifEntity
               /\ assets' = assets /\ exif' = exif]_vars

\* C7 witness: a run was abandoned after its first pairing save, the video
\* still visible.
C7_Witness ==
    \E k \in Workers :
        /\ w[k].outcome = "caught" /\ w[k].match # NULL
        /\ assets[1].livePhotoVideoId = 2 /\ assets[2].isVisible

\* C8: an extraction job, image or video, whose asset snapshot is not
\* visible does no work: it is skipped on entry.
C8_VisibilityGuard ==
    \A k \in Workers :
        (w[k].name \in ExtractionJobs /\ ~w[k].data.isVisible) =>
            /\ w[k].pc = "done" /\ w[k].outcome = "skipped"
            /\ w[k].newExif = NewExifEntity /\ w[k].enqueued = 0

\* The tag reads of worker k's run that failed.
ReadFaults(k) ==
    (IF w[k].media.ok THEN 0 ELSE 1) + (IF w[k].sidecar.ok THEN 0 ELSE 1)

AsEmpty(data) == IF data.ok THEN data ELSE ReadOk(EmptyTags)

\* C9: a run whose tag reads failed (the embedded one, the sidecar one, or
\* both), nothing else failing, is never abandoned; it builds its record
\* with the failed source taken as empty, and once it has returned its
\* record is stored and its chained job enqueued.
C9_TagReadFailureNonFatal ==
    \A k \in Workers :
        (ReadFaults(k) >= 1 /\ faults = ReadFaults(k)) =>
            /\ w[k].outcome # "caught"
            /\ (w[k].name = EXIF_EXTRACTION /\ w[k].newExif.assetId # UNDEF) =>
                  \A column \in {"make", "livePhotoCID", "dateTimeOriginal"} :
                      w[k].newExif[column] =
                          ImageExif(w[k].data, AsEmpty(w[k].sidecar), AsEmpty(w[k].media), 1)[column]
            /\ (w[k].name = EXTRACT_VIDEO_METADATA /\ w[k].newExif.assetId # UNDEF) =>
                  w[k].newExif.livePhotoCID = NULL
            /\ w[k].pc = "done" =>
                  /\ w[k].outcome = "ok" /\ w[k].enqueued = 1
                  /\ \E e \in exif : e.assetId = w[k].data.id
                  /\ Chained(w[k].data.id)

\* C9 witness: an image run whose two reads both failed has returned with
\* its record stored.
C9_Witness ==
    \E k \in Workers :
        /\ w[k].name = EXIF_EXTRACTION /\ ReadFaults(k) = 2
        /\ w[k].pc = "done" /\ w[k].outcome = "ok"
        /\ \E e \in exif : e.assetId = w[k].data.id /\ e.livePhotoCID = NULL

\* ------------------------------------------------ claims on the geocoder
\* C3: while geocodingRepository.init() is building the index, no extraction
\* job runs a reverseGeocode lookup, a job taken before the pause included.
C3_RebuildBarrier == "building" \notin geoObserved

\* C4: once init() has returned, the queue is not paused, whether the build
\* completed or failed.
C4_PauseThenResume == ini.pc \in {"idle", "returned"} => ~paused

\* C5: every mutation of the index by init(deleteCache), the purge and the
\* build, is made while the queue is paused.
C5_WritesInsidePause == \A write \in indexWrites : write.paused

\* C16: with reverse geocoding disabled, init() calls neither deleteCache,
\* pause, geocodingRepository.init nor resume (the index and the queue are
\* never touched), no job calls reverseGeocode, and no record, built or
\* stored, has a country, state or city.
C16_DisabledMeansNoWork ==
    ~reverseGeocodingEnabled =>
        /\ ini.pc \in {"idle", "returned"}
        /\ indexWrites = {} /\ indexState = "absent" /\ ~paused
        /\ geoObserved = {}
        /\ \A k \in Workers : \A column \in {"country", "state", "city"} :
              w[k].newExif[column] \in {NULL, UNDEF}
        /\ \A e \in exif : e.country = NULL /\ e.state = NULL /\ e.city = NULL

\* C16 witness: with reverse geocoding disabled, init(true) has returned and
\* the record of the photo with GPS coordinates is stored without a place.
C16_Witness ==
    /\ ~reverseGeocodingEnabled
    /\ ini.calls = 1 /\ ini.deleteCache /\ ini.pc = "returned"
    /\ \E e \in exif : e.assetId = 1 /\ e.latitude = 1 /\ e.longitude = 1 /\ e.city = NULL

\* ---------------------------------------------- claims on the dispatcher
\* C6: when the enqueue for one row fails during a scan, the scan goes on
\* and a job is emitted for every other row of the page and of the pages
\* that follow.
C6_EmissionIsolated ==
    (scan.pc = "done" /\ scan.failed # {}) =>
        \A a \in Target(scan.handler, scan.force) \ scan.failed :
            \E job \in BagToSet(queue) : job.asset.id = a

\* C12: in one non-forced metadata scan at most one extraction job is
\* emitted per asset, also while records are stored during the scan.
C12_NoDuplicateDispatch ==
    (scan.handler = QUEUE_METADATA_EXTRACTION /\ ~scan.force) =>
        /\ \A job \in BagToSet(queue) : CopiesIn(job, queue) = 1
        /\ \A j1, j2 \in BagToSet(queue) : j1.asset.id = j2.asset.id => j1 = j2

\* C12 witness: a non-forced metadata scan went through two pages and
\* emitted a job from each, a record having been stored meanwhile.
C12_Witness ==
    /\ scan.handler = QUEUE_METADATA_EXTRACTION /\ ~scan.force
    /\ scan.pc = "done" /\ scan.outcome = "ok"
    /\ \E j1, j2 \in BagToSet(queue) : j1.asset.id = 1 /\ j2.asset.id = 3
    /\ \E e \in exif : e.assetId = 2
    /\ ~\E job \in BagToSet(queue) : job.asset.id = 2

\* --------------------------------------------------- claims on the merge
\* The places of a request list whose tag a source populates.
Populated(data, properties) ==
    {i \in 1 .. Len(properties) : Tag(data, properties[i]).kind # "absent"}

Least(places) == CHOOSE i \in places : \A j \in places : i <= j

\* C10 as stated: whenever the sidecar populates a field, under any alias of
\* its request list, the merged field is the sidecar's value, whatever the
\* embedded tags hold.
C10_SidecarPrecedence ==
    mergeOut.assetId # UNDEF =>
        \A column \in TagColumns :
            LET inSidecar == Populated(mergeIn.sidecar, Request(column))
            IN  inSidecar # {} =>
                    mergeOut[column] =
                        Coerce(column, Tag(mergeIn.sidecar, Request(column)[Least(inSidecar)]),
                               mergeIn.asset)

\* C10 amended: the merge takes the first alias, in list order, that either
\* source populates; when the sidecar populates that alias the merged field
\* is the sidecar's value (as the field coerces it), whatever the embedded
\* tags hold.
C10_SidecarPrecedencePerAlias ==
    mergeOut.assetId # UNDEF =>
        \A column \in TagColumns :
            LET inSidecar == Populated(mergeIn.sidecar, Request(column))
                inEither == inSidecar \cup Populated(mergeIn.media, Request(column))
            IN  (inEither # {} /\ Least(inEither) \in inSidecar) =>
                    mergeOut[column] =
                        Coerce(column, Tag(mergeIn.sidecar, Request(column)[Least(inEither)]),
                               mergeIn.asset)

\* C10 witness: both sources populate ImageHeight, with different values,
\* neither populates ExifImageHeight, and the merged height is the sidecar's.
C10_Witness ==
    /\ mergeOut.assetId # UNDEF
    /\ Tag(mergeIn.sidecar, "ExifImageHeight") = Absent
    /\ Tag(mergeIn.media, "ExifImageHeight") = Absent
    /\ Tag(mergeIn.sidecar, "ImageHeight") = Num(1)
    /\ Tag(mergeIn.media, "ImageHeight") = Num(0)
    /\ mergeOut.exifImageHeight = 1

\* ------------------------------------- claims on the sidecar processor
\* C11: a discovery run returns at once, changing no asset and enqueueing no
\* job, exactly when its asset is not visible or already has a sidecar
\* path; a failed probe (absent or not accessible) ends it the same way; a
\* run whose probe succeeded enqueues its one extraction job after the save,
\* the job fitting the asset's type and carrying the row with the sidecar
\* path; and a run without a failure ends in one of these ways.
C11_SidecarDiscovery ==
    [][\A k \in Workers :
         (w'[k].name = SIDECAR_DISCOVERY /\ w'[k] # w[k]) =>
            /\ ~Busy(k) =>
                  (w'[k].outcome = "skipped" <=>
                      (~w'[k].data.isVisible \/ w'[k].data.sidecarPath # NULL))
            /\ w'[k].outcome \in {"skipped", "ENOENT", "EACCES"} =>
                  /\ w'[k].pc = "done" /\ w'[k].enqueued = 0
                  /\ assets' = assets /\ queue' \sqsubseteq queue
            /\ w'[k].enqueued # 0 =>
                  /\ w[k].pc = "queueExtraction" /\ w'[k].enqueued = 1
                  /\ assets[w[k].data.id].sidecarPath = 1
                  /\ queue' = enqueue(queue,
                         Job(IF w[k].data.type = VIDEO THEN EXTRACT_VIDEO_METADATA
                             ELSE EXIF_EXTRACTION,
                             [w[k].data EXCEPT !.sidecarPath = 1]))
            /\ (w'[k].pc = "done" /\ faults' = 0) =>
                  \/ w'[k].outcome \in {"skipped", "ENOENT", "EACCES"}
                  \/ w'[k].outcome = "ok" /\ w'[k].enqueued = 1]_vars

\* C11 witness: a discovery run for the video found the file, saved the
\* path and enqueued the video job with the saved row.
C11_Witness ==
    \E k \in Workers :
        /\ w[k].name = SIDECAR_DISCOVERY /\ w[k].pc = "done" /\ w[k].outcome = "ok"
        /\ w[k].data.id = 2 /\ assets0[2].sidecarPath = NULL /\ assets[2].sidecarPath = 1
        /\ \E job \in BagToSet(queue) :
              job.name = EXTRACT_VIDEO_METADATA /\ job.asset = assets[2]

\* C17 as stated: every asset delivered to the sync job gets exactly one
\* extraction job, whatever its attributes.
C17_SyncUnconditional ==
    \A k \in Workers :
        (w[k].name = SIDECAR_SYNC /\ w[k].pc = "done" /\ w[k].outcome # "caught") =>
            w[k].enqueued = 1

\* C17 amended: a sync run for a visible asset whose enqueue does not fail
\* enqueues exactly one extraction job, fitting the asset's type and
\* carrying the delivered row; a run for an asset that is not visible
\* enqueues none.
C17_SyncVisibleOnly ==
    [][\A k \in Workers :
         (w'[k].name = SIDECAR_SYNC /\ w'[k] # w[k] /\ w'[k].pc = "done") =>
            IF w'[k].data.isVisible
            THEN w'[k].outcome # "caught" =>
                    /\ w'[k].enqueued = 1
                    /\ queue' = enqueue(queue,
                           Job(IF w[k].data.type = VIDEO THEN EXTRACT_VIDEO_METADATA
                               ELSE EXIF_EXTRACTION, w[k].data))
            ELSE /\ w'[k].outcome = "skipped" /\ w'[k].enqueued = 0
                 /\ queue' \sqsubseteq queue]_vars

\* C17 witness: a sync run for the visible video, which has a sidecar, has
\* enqueued the video job.
C17_Witness ==
    \E k \in Workers :
        /\ w[k].name = SIDECAR_SYNC /\ w[k].pc = "done" /\ w[k].enqueued = 1
        /\ w[k].data.id = 2 /\ w[k].data.isVisible /\ w[k].data.sidecarPath = 1
        /\ \E job \in BagToSet(queue) :
              job.name = EXTRACT_VIDEO_METADATA /\ job.asset = w[k].data

\* ------------------------------------------------ claims on re-extraction
\* The second run of a job has returned and nothing failed during it.
RerunDone ==
    /\ rerun.on /\ ~Pending /\ faults = rerun.faults
    /\ \A k \in RerunWorkers : ~Busy(k)

\* C13: when the job of an asset, having run without a failure, runs again
\* (as a duplicate of the same snapshot or as a new job), the metadata
\* records are the ones present after the first run and every pairing link
\* and visibility flag is as it was after the first run.
C13_IdempotentReextraction ==
    RerunDone =>
        /\ exif = rerun.exif
        /\ \A a \in AssetIds :
              /\ assets[a].livePhotoVideoId = rerun.assets[a].livePhotoVideoId
              /\ assets[a].isVisible = rerun.assets[a].isVisible

\* C13 witness: the video's job ran again from its first snapshot after the
\* pair had been linked, searched again and wrote the record again.
C13_Witness ==
    /\ RerunDone
    /\ \E k \in RerunWorkers :
          /\ w[k].name = EXTRACT_VIDEO_METADATA /\ w[k].outcome = "ok"
          /\ w[k].data.isVisible /\ w[k].match = 1
    /\ rerun.assets[1].livePhotoVideoId = 2 /\ ~rerun.assets[2].isVisible
    /\ \E e \in exif : e.assetId = 2

\* ----------------------------------------------------- claims on links
\* The content identifier in an asset's files: MediaGroupUUID of the merged
\* tags for an image, ContentIdentifier for a video.
FileCid(a) ==
    IF assets[a].type = VIDEO
    THEN Tag(ReadOk(files[a].media), "ContentIdentifier")
    ELSE getExifProperty(ReadOk(files[a].sidecar), ReadOk(files[a].media),
                         <<"MediaGroupUUID">>)

\* C14: every asset whose livePhotoVideoId is set is an image, and the
\* asset it names is a video of the same owner, another asset than the
\* image, with the image's content identifier.
C14_LinkWellFormed ==
    \A a \in AssetIds :
        assets[a].livePhotoVideoId # NULL =>
            /\ assets[a].type = IMAGE
            /\ assets[a].livePhotoVideoId \in AssetIds \ {a}
            /\ assets[assets[a].livePhotoVideoId].type = VIDEO
            /\ assets[assets[a].livePhotoVideoId].ownerId = assets[a].ownerId
            /\ FileCid(a).kind # "absent"
            /\ FileCid(assets[a].livePhotoVideoId) = FileCid(a)

\* C14 witness: the still is linked to the video, and both jobs searched
\* (the video's job found nothing, the still's job found the video).
C14_Witness ==
    /\ assets[1].livePhotoVideoId = 2
    /\ \E k \in Workers : w[k].name = EXIF_EXTRACTION /\ w[k].match = 2
    /\ \E k \in Workers : w[k].name = EXTRACT_VIDEO_METADATA /\ w[k].pc = "done"

\* ---------------------------------------------------- claims on records
\* A record as a write that replaces the whole row would leave it: the
\* columns the handler never assigned are null.
Whole(newExif) ==
    [column \in ExifColumns |-> IF newExif[column] = UNDEF THEN NULL ELSE newExif[column]]

ClaimedRank(pc) ==
    CASE pc \in {"readMedia", "readSidecar", "ffprobe", "readTags"} -> 1
      [] pc = "stat" -> 2
      [] pc \in {"location", "geocode"} -> 3
      [] pc \in {"search", "saveLink", "saveHide", "inspect", "streams"} -> 4
      [] pc \in {"upsert", "save"} -> 5
      [] pc = "queue" -> 6
      [] OTHER -> 7

\* The place of each step in the order of the handlers.
CodeRank(pc) ==
    CASE pc \in {"readMedia", "ffprobe"} -> 1
      [] pc \in {"readSidecar", "readTags"} -> 2
      [] pc = "stat" -> 3
      [] pc = "search" -> 4
      [] pc = "saveLink" -> 5
      [] pc = "saveHide" -> 6
      [] pc = "location" -> 7
      [] pc = "geocode" -> 8
      [] pc \in {"inspect", "streams"} -> 9
      [] pc = "upsert" -> 10
      [] pc = "save" -> 11
      [] pc = "queue" -> 12
      [] OTHER -> 13

\* The chained job of a run is enqueued by its last step, the record of the
\* asset being stored.
ChainedAfterUpsert(k) ==
    w'[k].enqueued > w[k].enqueued =>
        /\ w[k].pc = "queue"
        /\ \E e \in exif : e.assetId = w[k].data.id

DimensionColumns == {"exifImageHeight", "exifImageWidth", "orientation"}

\* What the tags the run read give for a column: Absent when no tag source
\* populated it.
TagFor(k, column) == getExifProperty(w[k].sidecar, w[k].media, Request(column))

\* What image inspection reports for a column, null when it reports none.
SeenFor(k, column) ==
    LET metadata == files[w[k].asset.id].sharp
        seen == CASE column = "exifImageHeight" -> metadata.height
                  [] column = "exifImageWidth" -> metadata.width
                  [] OTHER -> metadata.orientation
    IN  IF seen = UNDEF THEN NULL ELSE seen

\* The value C19 gives a column of the persisted record.
FallbackFor(k, column) ==
    IF TagFor(k, column).kind # "absent" THEN TagFor(k, column).v
    ELSE SeenFor(k, column)

\* The upsert of an image run stores the column as C19 says.
PersistedAsClaimed(k, column) ==
    (w[k].name = EXIF_EXTRACTION /\ w[k].pc = "upsert" /\ w'[k].pc = "save") =>
        \A e \in exif' : e.assetId = w[k].asset.id => e[column] = FallbackFor(k, column)

\* With the three columns populated by tags the inspection step cannot
\* fail, image inspection not being invoked.
NotInspectedWhenPopulated(k) ==
    (/\ w[k].name = EXIF_EXTRACTION /\ w[k].pc = "inspect" /\ w'[k] # w[k]
     /\ \A column \in DimensionColumns : TagFor(k, column).kind # "absent") =>
        w'[k].pc = "upsert" /\ w'[k].newExif = w[k].newExif

\* C19: in image extraction each of width, height and orientation that no
\* tag source populated is persisted with the value image inspection
\* reports (null when it reports none), each one a tag source populated
\* keeps its tag value, and image inspection is not invoked when the three
\* were populated by tags.
C19_FallbackForUnset ==
    [][\A k \in Workers :
         /\ \A column \in DimensionColumns : PersistedAsClaimed(k, column)
         /\ NotInspectedWhenPopulated(k)]_vars

\* The rate of the one stream of the video a run works on.
RateOf(k) == files[w[k].asset.id].probe.streams[1].r_frame_rate

\* A video run that is past its streams holds the record it persists.
PastStreams(k) ==
    w[k].name = EXTRACT_VIDEO_METADATA /\ w[k].pc \in {"upsert", "save", "queue"}

\* num/den rounded to the nearest integer, a half going up.
Rounded(num, den) ==
    CHOOSE q \in 0 .. (num + 1) : 2 * q * den <= 2 * num + den /\ 2 * num + den < 2 * (q + 1) * den

\* C20: for a stream whose rate is "num/den" the record's fps is num/den
\* rounded to the nearest integer, and null whenever den is 0 or a part is
\* not a number.
C20_FrameRate ==
    \A k \in Workers :
        (PastStreams(k) /\ RateOf(k).parts = 2) =>
            IF RateOf(k).num # NAN /\ RateOf(k).den # NAN /\ RateOf(k).den # 0
            THEN w[k].newExif.fps = Rounded(RateOf(k).num, RateOf(k).den)
            ELSE w[k].newExif.fps = NULL

\* ------------------------------------------- claims on location parsing
\* A video run that is past the parsing of its location tags.
PastLocation(k) ==
    /\ w[k].name = EXTRACT_VIDEO_METADATA
    /\ w[k].pc \in {"geocode", "streams", "upsert", "save", "queue"}

\* The whole string is exactly n signed decimal groups and a slash.
ExactGroups(location, n) ==
    /\ Len(location) = n + 1
    /\ \A i \in 1 .. n : location[i].kind = "group"
    /\ location[n + 1].kind = "slash"

\* The coordinates C21 gives a video: those of a 'location' tag that is
\* exactly two groups and a slash, else (without a 'location' tag) those of
\* an ISO-6709 tag that is exactly three groups and a slash, else none.
StrictCoordinates(data) ==
    IF data.location # << >>
    THEN IF ExactGroups(data.location, 2)
         THEN <<data.location[1].v, data.location[2].v>> ELSE <<NULL, NULL>>
    ELSE IF ExactGroups(data.iso6709, 3)
         THEN <<data.iso6709[1].v, data.iso6709[2].v>> ELSE <<NULL, NULL>>

\* C21: a video's location string yields latitude and longitude only when
\* the whole string is exactly two signed decimal groups and '/', an
\* ISO-6709 string only when it is exactly three groups and '/'; any other
\* string leaves both null.
C21_StrictLocation ==
    \A k \in Workers :
        PastLocation(k) =>
            <<w[k].newExif.latitude, w[k].newExif.longitude>>
                = StrictCoordinates(files[w[k].asset.id].probe)

\* --------------------------------------------- claims on pairing effects
\* No extraction job is running.
Quiet == \A k \in Workers : ~Busy(k)

\* A pairing step made the video invisible.
HiddenByPairing(v) ==
    assets[v].type = VIDEO /\ assets0[v].isVisible /\ ~assets[v].isVisible

\* C22: between extraction jobs, every video that a pairing step made
\* invisible is the target of some image's livePhotoVideoId.
C22_NoOrphanedHiddenVideo ==
    Quiet =>
        \A v \in DOMAIN assets :
            HiddenByPairing(v) =>
                \E i \in DOMAIN assets :
                    assets[i].type = IMAGE /\ assets[i].livePhotoVideoId = v

\* C23: once the extraction jobs have ended, normally or after a caught
\* failure, an image's livePhotoVideoId points to a video only if that
\* video is invisible, and a video a pairing step made invisible is pointed
\* to by an image: both pairing effects are present, or neither.
C23_PairingAllOrNothing ==
    Quiet =>
        \A i, v \in DOMAIN assets :
            (assets[i].type = IMAGE /\ assets[v].type = VIDEO) =>
                /\ assets[i].livePhotoVideoId = v => ~assets[v].isVisible
                /\ HiddenByPairing(v) =>
                      \E j \in DOMAIN assets : assets[j].livePhotoVideoId = v

====
